---- MODULE Spec2Model ----
(***************************************************************************)
(* Model of the channel / cloud-recording resolvers of the backend:        *)
(* graph/schema.resolvers.go (CreateChannel, StartRecordingSession,        *)
(* StopRecordingSession, JoinChannel, Share) and the recorder in utils     *)
(* (Recorder.Acquire, Recorder.Start, Stop, FirstN).                       *)
(*                                                                         *)
(* The store is the table "channels"; every request is served by one of    *)
(* the request slots in Procs, and requests interleave at the points where *)
(* a handler blocks on the store or on the external recording service.     *)
(***************************************************************************)
EXTENDS Integers, Sequences, FiniteSets, TLC

\* ---------------------------------------------------------------- bounds
MaxChannels == 2        \* rows the table may hold
MaxRequests == 3        \* requests that may arrive in one run
MaxTitleLen == 150      \* longest title given to the title sanitization
Procs == {"p1", "p2"}   \* concurrent request slots

\* ------------------------------------------------------------- constants
TitleLimit == 100       \* utils.FirstN(..., 100)
HalfWord == 65536       \* 2^16: a 32-bit value is written hi * 2^16 + lo
MaxRune == 1114111      \* unicode.MaxRune, 0x10FFFF
RuneError == 65533      \* utf8.RuneError, U+FFFD

\* --------------------------------------------------------------- strings
\* Strings that are compared with one another (passphrases, channel names)
\* are records of one shape: a literal, a UUID, or a UUID without dashes.
Lit(n) == [k |-> "lit", n |-> n]
Empty == Lit(0)          \* ""
DollarOne == Lit(1)      \* the text "$1"; the generator never produces it

\* errors the resolvers construct themselves
errInternalServer == "Internal Server Error"
errBadRequest == "Bad Request"
errEmptyPassphrase == "Passphrase cannot be empty"
errInvalidURL == "Invalid URL"
errUnauthorised == "Unauthorised to record channel"
errNotStarted == "Recording not started"
errInvalidToken == "Invalid Token"
\* the error value utils.GenerateUUID itself returns
errUUIDRaw == "uuid: could not read random bytes"
NoError == "nil"
Panic == "panic: nil pointer dereference"

\* ---------------------------------------------------- utils (identifiers)
\* utils.GenerateUUID: the n-th identifier handed out; never the same twice.
GenerateUUID(n) == [k |-> "uuid", n |-> n]

\* strings.ReplaceAll(u, "-", "")
ReplaceAllDashes(u) == [k |-> "hex", n |-> u.n]

\* utils.GenerateDTMF: a non-empty dial-in code
DTMFCodes == {"1234"}

\* Titles are sequences of characters.
Alnum == {"a", "Z", "1", "M", "y", "C", "h", "n", "e", "l"}
Titles == {<<"a", "!", "Z">>}

\* regexp [^a-zA-Z0-9]+ replaced by "": the alphanumerics, in order
RECURSIVE StripNonAlnum(_)
StripNonAlnum(s) ==
    IF s = <<>> THEN <<>>
    ELSE IF Len(s) = 1 THEN (IF s[1] \in Alnum THEN s ELSE <<>>)
    ELSE LET half == Len(s) \div 2
         IN StripNonAlnum(SubSeq(s, 1, half)) \o StripNonAlnum(SubSeq(s, half + 1, Len(s)))

\* (variant: nothing cut)
FirstN_Uncut(s, n) == s

\* utils.FirstN: the first n characters of s
FirstN(s, n) == IF Len(s) <= n THEN s ELSE SubSeq(s, 1, n)

\* A numeric id as the credential generator returns it (a Go int holding 32
\* random bits), written in two 16-bit halves.
UInt(hi, lo) == [hi |-> hi, lo |-> lo]

\* int32(x) of such a value: the same 32 bits read as a signed number
ToInt32(x) ==
    IF x.hi >= HalfWord \div 2
    THEN (x.hi - HalfWord) * HalfWord + x.lo
    ELSE x.hi * HalfWord + x.lo

\* string(i) of an integer: the UTF-8 text of the code point i, not its
\* decimal digits; values outside the valid code points give U+FFFD.
RuneString(i) ==
    IF i < 0 \/ i > MaxRune \/ (i >= 55296 /\ i <= 57343)
    THEN [rune |-> RuneError]
    ELSE [rune |-> i]

\* ------------------------------------------------------- table "channels"
NullString(s) == [String |-> s, Valid |-> TRUE]
NullInt32(i) == [Int32 |-> i, Valid |-> TRUE]
ZeroNullString == [String |-> "", Valid |-> FALSE]
ZeroNullInt32 == [Int32 |-> 0, Valid |-> FALSE]

Columns == {"id", "title", "channel_name", "channel_secret", "host_passphrase",
            "viewer_passphrase", "dtmf", "recording_uid", "recording_sid",
            "recording_rid"}

\* a models.Channel value before anything is scanned into it
ZeroChannel ==
    [id |-> 0, title |-> <<>>, channel_name |-> Empty, channel_secret |-> Empty,
     host_passphrase |-> Empty, viewer_passphrase |-> Empty, dtmf |-> "",
     recording_uid |-> ZeroNullInt32, recording_sid |-> ZeroNullString,
     recording_rid |-> ZeroNullString]

\* the column lists of the SELECT statements
RecordingSelect == {"id", "title", "channel_name", "channel_secret",
                    "host_passphrase", "viewer_passphrase"}
JoinSelect == {"title", "channel_name", "channel_secret", "host_passphrase",
               "viewer_passphrase"}

\* scanning a row into a struct fills the selected columns only
Scan(row, cols) == [c \in Columns |-> IF c \in cols THEN row[c] ELSE ZeroChannel[c]]

\* WHERE host_passphrase = $1 OR viewer_passphrase = $1
WherePassphrase(store, arg) ==
    {i \in DOMAIN store : store[i].host_passphrase = arg
                          \/ store[i].viewer_passphrase = arg}

\* WHERE host_passphrase = '$1' OR viewer_passphrase = '$1': inside quotes
\* $1 is the text "$1", not the bind parameter
WhereQuoted(store, arg) ==
    {i \in DOMAIN store : store[i].host_passphrase = DollarOne
                          \/ store[i].viewer_passphrase = DollarOne}

\* DB.Get: a matching row scanned into the struct, or an error
NoRows == [found |-> FALSE, row |-> 0, data |-> ZeroChannel]
Get(store, matches, cols) ==
    IF matches = {} THEN {NoRows}
    ELSE {[found |-> TRUE, row |-> i, data |-> Scan(store[i], cols)] : i \in matches}

\* (variant: the two comparisons exchanged)
Role_Swapped(passphrase, channelData) ==
    IF passphrase = channelData.viewer_passphrase THEN "host"
    ELSE IF passphrase = channelData.host_passphrase THEN "viewer"
    ELSE "none"

\* host / viewer / neither, as every resolver derives it
Role(passphrase, channelData) ==
    IF passphrase = channelData.host_passphrase THEN "host"
    ELSE IF passphrase = channelData.viewer_passphrase THEN "viewer"
    ELSE "none"

VARIABLES channels, nextUUID, arrived, pc, op, passphrase, channelData, recorder,
          fileTitle, result, calls, writes, issued, rowAtGet, pstnRead

vars == <<channels, nextUUID, arrived, pc, op, passphrase, channelData, recorder,
          fileTitle, result, calls, writes, issued, rowAtGet, pstnRead>>


\* ------------------------------------------------ external collaborators
\* utils.GenerateUserCredentials: a failure, or a numeric id with a token
\* signed for the channel and that id
CredUIDs == {UInt(0, 7), UInt(32768, 7)}
Credentials(channel) ==
    {[err |-> TRUE, UID |-> UInt(0, 0), Rtc |-> [cname |-> Empty, uid |-> UInt(0, 0)]]}
    \cup {[err |-> FALSE, UID |-> u, Rtc |-> [cname |-> channel, uid |-> u]] : u \in CredUIDs}

\* What the recording service may answer: no answer at all (transport
\* error), a success carrying the identifier, a success without it, or a
\* non-success status with an error body.
RIDs == {"R1"}
SIDs == {"S1"}
NetErr == [neterr |-> TRUE, status |-> 0, resourceId |-> "", sid |-> ""]
AcquireResponses ==
    {NetErr}
    \cup {[neterr |-> FALSE, status |-> 200, resourceId |-> r, sid |-> ""] : r \in RIDs \cup {""}}
    \cup {[neterr |-> FALSE, status |-> 401, resourceId |-> "", sid |-> ""]}
StartResponses(rid) ==
    {NetErr}
    \cup {[neterr |-> FALSE, status |-> 200, resourceId |-> rid, sid |-> s] : s \in SIDs}
    \cup {[neterr |-> FALSE, status |-> 401, resourceId |-> "", sid |-> ""]}
StopResponses(rid, sid) ==
    {NetErr}
    \cup {[neterr |-> FALSE, status |-> st, resourceId |-> rid, sid |-> sid] : st \in {200, 404}}

\* a request of the resolver to the recording service, with its answer
Call(endpoint, cname, uid, rid, sid, token, prefix, secret, resp) ==
    [endpoint |-> endpoint, cname |-> cname, uid |-> uid, rid |-> rid, sid |-> sid,
     token |-> token, prefix |-> prefix, secret |-> secret, resp |-> resp]

NoToken == [cname |-> Empty, uid |-> UInt(0, 0)]
ZeroRecorder == [Channel |-> Empty, Token |-> NoToken, UID |-> 0, RID |-> "", SID |-> ""]

\* ------------------------------------------------------------ utils.Recorder
\* (variant: the acquire request sent again after a transport error)
Acquire_Retry(rec, creds, resp) ==
    IF creds.err
    THEN [err |-> TRUE, rec |-> rec, calls |-> <<>>]
    ELSE LET uid == ToInt32(creds.UID)
             withCreds == [rec EXCEPT !.UID = uid, !.Token = creds.Rtc]
             sent == <<Call("acquire", rec.Channel, RuneString(uid), "", "",
                            NoToken, <<>>, "", resp)>>
         IN IF resp.neterr
            THEN [err |-> TRUE, rec |-> withCreds, calls |-> sent \o sent]
            ELSE [err |-> FALSE, rec |-> [withCreds EXCEPT !.RID = resp.resourceId],
                  calls |-> sent]

\* Recorder.Acquire: the recorder afterwards, the error returned and the
\* requests sent
Acquire(rec, creds, resp) ==
    IF creds.err
    THEN [err |-> TRUE, rec |-> rec, calls |-> <<>>]
    ELSE LET uid == ToInt32(creds.UID)
             withCreds == [rec EXCEPT !.UID = uid, !.Token = creds.Rtc]
             sent == <<Call("acquire", rec.Channel, RuneString(uid), "", "",
                            NoToken, <<>>, "", resp)>>
         IN IF resp.neterr
            THEN [err |-> TRUE, rec |-> withCreds, calls |-> sent]
            ELSE [err |-> FALSE, rec |-> [withCreds EXCEPT !.RID = resp.resourceId],
                  calls |-> sent]

\* Recorder.Start
Start(rec, channelTitle, secret, resp) ==
    LET decrypt == IF ~secret.nil /\ secret.s # "" THEN secret.s ELSE ""
        sent == <<Call("start", rec.Channel, RuneString(rec.UID), rec.RID, "",
                       rec.Token, channelTitle, decrypt, resp)>>
    IN IF resp.neterr
       THEN [err |-> TRUE, rec |-> rec, calls |-> sent]
       ELSE [err |-> FALSE, rec |-> [rec EXCEPT !.SID = resp.sid], calls |-> sent]

\* utils.Stop
Stop(channel, uid, rid, sid, resp) ==
    [err |-> resp.neterr,
     calls |-> <<Call("stop", channel, RuneString(uid), rid, sid, NoToken, <<>>, "", resp)>>]


\* ------------------------------------------------------------- requests
\* the optional secret argument: absent, empty or a key
NilSecret == [nil |-> TRUE, s |-> ""]
Secrets == {NilSecret, [nil |-> FALSE, s |-> "k"]}

\* the authenticated user of the request, when OAuth is enabled and the
\* context carries one
NilUser == [nil |-> TRUE, Name |-> <<>>]
AuthUsers == {NilUser, [nil |-> FALSE, Name |-> <<"1", "#">>]}

\* passphrases a caller may send: the empty string, a string that was never
\* generated, and the passphrases handed out by CreateChannel so far
Passphrases(store) ==
    {Empty, DollarOne}
    \cup {store[i].host_passphrase : i \in DOMAIN store}
    \cup {store[i].viewer_passphrase : i \in DOMAIN store}

\* pstnRead is the value `*enablePstn` gave at the one place that reads it,
\* Unread for a request that has not got there
Unread == "unread"
NilValue == [kind |-> "nil"]
Outcome(val, err) == [val |-> val, err |-> err]
Failure(err) == Outcome(NilValue, err)
Status(s) == Outcome([kind |-> "status", status |-> s], NoError)
NoResult == Outcome(NilValue, "pending")

NoRow == [found |-> FALSE, row |-> ZeroChannel]

Init ==
    /\ channels = <<>>
    /\ nextUUID = 1
    /\ arrived = 0
    /\ pc = [p \in Procs |-> "idle"]
    /\ op = [p \in Procs |-> "none"]
    /\ passphrase = [p \in Procs |-> Empty]
    /\ channelData = [p \in Procs |-> ZeroChannel]
    /\ recorder = [p \in Procs |-> ZeroRecorder]
    /\ fileTitle = [p \in Procs |-> [title |-> <<>>, secret |-> [nil |-> TRUE, s |-> ""]]]
    /\ result = [p \in Procs |-> NoResult]
    /\ calls = [p \in Procs |-> <<>>]
    /\ writes = [p \in Procs |-> 0]
    /\ issued = [p \in Procs |-> 0]
    /\ rowAtGet = [p \in Procs |-> NoRow]
    /\ pstnRead = [p \in Procs |-> Unread]

\* a request arrives at the free slot p
Arrive(p, name) ==
    /\ pc[p] = "idle"
    /\ arrived < MaxRequests
    /\ arrived' = arrived + 1
    /\ op' = [op EXCEPT ![p] = name]

\* the request of slot p returns r to its caller
NoArgs == [title |-> <<>>, secret |-> NilSecret]
Return(p, r) ==
    /\ pc' = [pc EXCEPT ![p] = "done"]
    /\ result' = [result EXCEPT ![p] = r]
    /\ channelData' = [channelData EXCEPT ![p] = ZeroChannel]
    /\ recorder' = [recorder EXCEPT ![p] = ZeroRecorder]
    /\ fileTitle' = [fileTitle EXCEPT ![p] = NoArgs]

\* -------------------------------------------------------- CreateChannel
\* the generator calls of CreateChannel, in order, and how many identifiers
\* were handed out when the named one fails
GenFailures == {"none", "host", "view", "channel", "secret", "dtmf"}
Consumed(fail) ==
    CASE fail = "host" -> 0
      [] fail = "view" -> 1
      [] fail = "channel" -> 2
      [] fail = "secret" -> 3
      [] OTHER -> 4

\* (variant: the host phrase stored in both passphrase columns)
NewChannel_SamePhrase(id, title, channel, secret, hostPhrase, viewPhrase, dtmf) ==
    [id |-> id, title |-> title, channel_name |-> channel, channel_secret |-> secret,
     host_passphrase |-> hostPhrase, viewer_passphrase |-> hostPhrase, dtmf |-> dtmf,
     recording_uid |-> ZeroNullInt32, recording_sid |-> ZeroNullString,
     recording_rid |-> ZeroNullString]

\* the row INSERTed by CreateChannel: the recording columns are not named
\* and stay NULL
NewChannel(id, title, channel, secret, hostPhrase, viewPhrase, dtmf) ==
    [id |-> id, title |-> title, channel_name |-> channel, channel_secret |-> secret,
     host_passphrase |-> hostPhrase, viewer_passphrase |-> viewPhrase, dtmf |-> dtmf,
     recording_uid |-> ZeroNullInt32, recording_sid |-> ZeroNullString,
     recording_rid |-> ZeroNullString]

\* the PSTN part of a response
NoPstn == [nil |-> TRUE, Number |-> "", Dtmf |-> ""]
\* (variant: the PSTN part without the code)
Pstn_NoCode(dtmf) == [nil |-> FALSE, Number |-> "PSTN_NUMBER", Dtmf |-> ""]
Pstn(dtmf) == [nil |-> FALSE, Number |-> "PSTN_NUMBER", Dtmf |-> dtmf]

ShareResponse(host, view, title, channel, pstn) ==
    [kind |-> "share", Host |-> host, View |-> view, Title |-> title,
     Channel |-> channel, Pstn |-> pstn]
NilString == [nil |-> TRUE, s |-> Empty]
Ptr(s) == [nil |-> FALSE, s |-> s]

\* CreateChannel as a function of its inputs and of what its collaborators
\* do: the store and generator afterwards and the outcome
CreateChannelRun(store, next, title, enablePstn, tokenInvalid, fail, dtmf, insertErr) ==
    LET hostPhrase == GenerateUUID(next)
        viewPhrase == GenerateUUID(next + 1)
        channel == ReplaceAllDashes(GenerateUUID(next + 2))
        secret == ReplaceAllDashes(GenerateUUID(next + 3))
        newChannel == NewChannel(Len(store) + 1, title, channel, secret, hostPhrase,
                                 viewPhrase, dtmf)
        same == [store |-> store, wrote |-> 0]
        early == same @@ [read |-> Unread]
        late == same @@ [read |-> enablePstn]
    IN IF tokenInvalid THEN early @@ [next |-> next, out |-> Failure(errInvalidToken)]
       ELSE IF fail \in {"host", "view", "channel", "dtmf"}
       THEN early @@ [next |-> next + Consumed(fail), out |-> Failure(errInternalServer)]
       ELSE IF fail = "secret"
       THEN early @@ [next |-> next + Consumed(fail), out |-> Failure(errUUIDRaw)]
       ELSE IF enablePstn = "nil"
       THEN late @@ [next |-> next + 4, out |-> Failure(Panic)]
       ELSE IF insertErr
       THEN late @@ [next |-> next + 4, out |-> Failure(errInternalServer)]
       ELSE [store |-> Append(store, newChannel), wrote |-> 1, next |-> next + 4,
             read |-> enablePstn,
             out |-> Outcome(ShareResponse(Ptr(hostPhrase), viewPhrase, title, channel,
                                           IF enablePstn = "true" THEN Pstn(dtmf) ELSE NoPstn),
                             NoError)]

CreateChannel(p) ==
    /\ Arrive(p, "CreateChannel")
    /\ Len(channels) < MaxChannels
    /\ \E title \in Titles, enablePstn \in {"true", "false", "nil"},
          tokenInvalid \in BOOLEAN, fail \in GenFailures, dtmf \in DTMFCodes,
          insertErr \in BOOLEAN :
         LET run == CreateChannelRun(channels, nextUUID, title, enablePstn,
                                     tokenInvalid, fail, dtmf, insertErr)
         IN /\ channels' = run.store
            /\ nextUUID' = run.next
            /\ writes' = [writes EXCEPT ![p] = run.wrote]
            /\ pstnRead' = [pstnRead EXCEPT ![p] = run.read]
            /\ Return(p, run.out)
    /\ UNCHANGED <<passphrase, calls, issued, rowAtGet>>


\* ------------------------------------------- passphrase resolution (shared)
\* The checks every passphrase resolver starts with: the empty passphrase,
\* the row lookup, the comparison with the two passphrases of the row.
ResolveError(pass, g) ==
    IF pass = Empty THEN errEmptyPassphrase
    ELSE IF ~g.found THEN errInvalidURL
    ELSE IF Role(pass, g.data) = "none" THEN errInvalidURL
    ELSE NoError

\* if !host { return "Unauthorised to record channel" }
HostOnly(pass, g) ==
    LET e == ResolveError(pass, g)
    IN IF e # NoError THEN e
       ELSE IF Role(pass, g.data) # "host" THEN errUnauthorised
       ELSE NoError

\* the ghost copy of the row DB.Get read, with all its columns
RowRead(g) == [found |-> g.found, row |-> IF g.found THEN channels[g.row] ELSE ZeroChannel]

\* ------------------------------------------------- StartRecordingSession
\* title := authUser.Name or channelData.Title, stripped and cut
FinalTitle(authUser, data) ==
    FirstN(StripNonAlnum(IF authUser.nil THEN data.title ELSE authUser.Name), TitleLimit)

\* arrival of the request up to the construction of the recorder
StartRecordingSession(p) ==
    /\ Arrive(p, "StartRecordingSession")
    /\ \E pass \in Passphrases(channels), secret \in Secrets, authUser \in AuthUsers :
       \E g \in Get(channels, WherePassphrase(channels, pass), RecordingSelect) :
         /\ passphrase' = [passphrase EXCEPT ![p] = pass]
         /\ rowAtGet' = [rowAtGet EXCEPT ![p] = RowRead(g)]
         /\ IF HostOnly(pass, g) # NoError
            THEN Return(p, Failure(HostOnly(pass, g)))
            ELSE /\ pc' = [pc EXCEPT ![p] = "acquire"]
                 /\ channelData' = [channelData EXCEPT ![p] = g.data]
                 /\ recorder' = [recorder EXCEPT
                                   ![p] = [ZeroRecorder EXCEPT !.Channel = g.data.channel_name]]
                 /\ fileTitle' = [fileTitle EXCEPT
                                    ![p] = [title |-> FinalTitle(authUser, g.data),
                                            secret |-> secret]]
                 /\ UNCHANGED result
    /\ UNCHANGED <<channels, nextUUID, calls, writes, issued, pstnRead>>

\* err = recorder.Acquire()
RecorderAcquire(p) ==
    /\ pc[p] = "acquire"
    /\ \E creds \in Credentials(recorder[p].Channel), resp \in AcquireResponses :
         LET a == Acquire(recorder[p], creds, resp)
         IN /\ calls' = [calls EXCEPT ![p] = @ \o a.calls]
            /\ issued' = [issued EXCEPT ![p] = IF creds.err THEN @ ELSE @ + 1]
            /\ IF a.err
               THEN Return(p, Failure(errInternalServer))
               ELSE /\ pc' = [pc EXCEPT ![p] = "start"]
                    /\ recorder' = [recorder EXCEPT ![p] = a.rec]
                    /\ UNCHANGED <<result, channelData, fileTitle>>
    /\ UNCHANGED <<channels, nextUUID, arrived, op, passphrase, writes, rowAtGet, pstnRead>>

\* err = recorder.Start(finalTitle, secret)
RecorderStart(p) ==
    /\ pc[p] = "start"
    /\ \E resp \in StartResponses(recorder[p].RID) :
         LET a == Start(recorder[p], fileTitle[p].title, fileTitle[p].secret, resp)
         IN /\ calls' = [calls EXCEPT ![p] = @ \o a.calls]
            /\ IF a.err
               THEN Return(p, Failure(errInternalServer))
               ELSE /\ pc' = [pc EXCEPT ![p] = "update"]
                    /\ recorder' = [recorder EXCEPT ![p] = a.rec]
                    /\ UNCHANGED <<result, channelData, fileTitle>>
    /\ UNCHANGED <<channels, nextUUID, arrived, op, passphrase, writes, issued, rowAtGet, pstnRead>>

\* (variant: RecordingUID left at its zero value)
RecordDetails_NoUID(data, rec) ==
    [id |-> data.id,
     recording_uid |-> ZeroNullInt32,
     recording_rid |-> NullString(rec.RID),
     recording_sid |-> NullString(rec.SID)]

\* recordDetails: the values bound to the UPDATE
RecordDetails(data, rec) ==
    [id |-> data.id,
     recording_uid |-> NullInt32(rec.UID),
     recording_rid |-> NullString(rec.RID),
     recording_sid |-> NullString(rec.SID)]

\* (variant: a resource id already on the row is kept)
UpdateRecording_KeepRid(store, d) ==
    [i \in DOMAIN store |->
        IF store[i].id = d.id
        THEN [store[i] EXCEPT !.recording_uid = d.recording_uid,
                              !.recording_sid = d.recording_sid,
                              !.recording_rid = IF @.Valid THEN @ ELSE d.recording_rid]
        ELSE store[i]]

\* UPDATE channels SET (recording_uid, recording_sid, recording_rid) = ...
\* WHERE id = :id
UpdateRecording(store, d) ==
    [i \in DOMAIN store |->
        IF store[i].id = d.id
        THEN [store[i] EXCEPT !.recording_uid = d.recording_uid,
                              !.recording_sid = d.recording_sid,
                              !.recording_rid = d.recording_rid]
        ELSE store[i]]

\* (variant: the error check inverted)
UpdateOutcome_Inverted(execErr) ==
    IF execErr THEN Status("success") ELSE Failure(errInternalServer)

\* what the resolver returns after the UPDATE
UpdateOutcome(execErr) ==
    IF execErr THEN Failure(errInternalServer) ELSE Status("success")

PersistRecording(p) ==
    /\ pc[p] = "update"
    /\ \E execErr \in BOOLEAN :
         /\ channels' = IF execErr THEN channels
                        ELSE UpdateRecording(channels, RecordDetails(channelData[p], recorder[p]))
         /\ writes' = [writes EXCEPT ![p] = IF execErr THEN @ ELSE @ + 1]
         /\ Return(p, UpdateOutcome(execErr))
    /\ UNCHANGED <<nextUUID, arrived, op, passphrase, calls, issued, rowAtGet, pstnRead>>

\* -------------------------------------------------- StopRecordingSession
\* (variant: the check left out)
RecordingStarted_Always(data) == TRUE

\* the three identifiers were read from the row
RecordingStarted(data) ==
    data.recording_rid.Valid /\ data.recording_sid.Valid /\ data.recording_uid.Valid

\* (variant: the identifiers of the row read are set to NULL)
StopStore_Cleared(store, g) ==
    [i \in DOMAIN store |->
        IF g.found /\ i = g.row
        THEN [store[i] EXCEPT !.recording_uid = ZeroNullInt32,
                              !.recording_sid = ZeroNullString,
                              !.recording_rid = ZeroNullString]
        ELSE store[i]]

\* the table after a StopRecordingSession that read g: the resolver and
\* utils.Stop hold no statement that writes
StopStore(store, g) == store

StopRecordingSession(p) ==
    /\ Arrive(p, "StopRecordingSession")
    /\ \E pass \in Passphrases(channels) :
       \E g \in Get(channels, WherePassphrase(channels, pass), RecordingSelect) :
       \E resp \in StopResponses(g.data.recording_rid.String, g.data.recording_sid.String) :
         LET s == Stop(g.data.channel_name, g.data.recording_uid.Int32,
                       g.data.recording_rid.String, g.data.recording_sid.String, resp)
         IN /\ passphrase' = [passphrase EXCEPT ![p] = pass]
            /\ rowAtGet' = [rowAtGet EXCEPT ![p] = RowRead(g)]
            /\ channels' = StopStore(channels, g)
            /\ writes' = [writes EXCEPT ![p] = IF StopStore(channels, g) = channels
                                               THEN @ ELSE @ + 1]
            /\ IF HostOnly(pass, g) # NoError
               THEN Return(p, Failure(HostOnly(pass, g))) /\ UNCHANGED calls
               ELSE IF ~RecordingStarted(g.data)
               THEN Return(p, Failure(errNotStarted)) /\ UNCHANGED calls
               ELSE /\ calls' = [calls EXCEPT ![p] = @ \o s.calls]
                    /\ Return(p, IF s.err THEN Failure(errInternalServer)
                                 ELSE Status("success"))
    /\ UNCHANGED <<nextUUID, issued, pstnRead>>

\* ----------------------------------------------------------- JoinChannel
\* (variant: IsHost not taken from the role)
Session_AlwaysHost(data, host, mainUser, screenShare) ==
    [kind |-> "session", Title |-> data.title, Channel |-> data.channel_name,
     IsHost |-> TRUE, MainUser |-> mainUser, ScreenShare |-> screenShare,
     Secret |-> data.channel_secret]

Session(data, host, mainUser, screenShare) ==
    [kind |-> "session", Title |-> data.title, Channel |-> data.channel_name,
     IsHost |-> host, MainUser |-> mainUser, ScreenShare |-> screenShare,
     Secret |-> data.channel_secret]

JoinChannel(p) ==
    /\ Arrive(p, "JoinChannel")
    /\ \E pass \in Passphrases(channels) :
       \E g \in Get(channels, WherePassphrase(channels, pass), JoinSelect) :
       \E mainUser \in Credentials(g.data.channel_name),
          screenShare \in Credentials(g.data.channel_name) :
         /\ passphrase' = [passphrase EXCEPT ![p] = pass]
         /\ rowAtGet' = [rowAtGet EXCEPT ![p] = RowRead(g)]
         /\ IF ResolveError(pass, g) # NoError
            THEN Return(p, Failure(ResolveError(pass, g))) /\ UNCHANGED issued
            ELSE IF mainUser.err
            THEN Return(p, Failure(errInternalServer)) /\ UNCHANGED issued
            ELSE IF screenShare.err
            THEN /\ Return(p, Failure(errInternalServer))
                 /\ issued' = [issued EXCEPT ![p] = @ + 1]
            ELSE /\ Return(p, Outcome(Session(g.data, Role(pass, g.data) = "host",
                                              mainUser, screenShare), NoError))
                 /\ issued' = [issued EXCEPT ![p] = @ + 2]
    /\ UNCHANGED <<channels, nextUUID, calls, writes, pstnRead>>

\* ----------------------------------------------------------------- Share
ShareOutcome(pass, data) ==
    Outcome(ShareResponse(IF Role(pass, data) = "host" THEN Ptr(data.host_passphrase)
                          ELSE NilString,
                          data.viewer_passphrase, data.title, data.channel_name,
                          IF data.dtmf # "" THEN Pstn(data.dtmf) ELSE NoPstn),
            NoError)

\* the WHERE clause of the SELECT in Share
ShareWhere(store, arg) == WhereQuoted(store, arg)

Share(p) ==
    /\ Arrive(p, "Share")
    /\ \E pass \in Passphrases(channels) :
       \E g \in Get(channels, ShareWhere(channels, pass), JoinSelect) :
         /\ passphrase' = [passphrase EXCEPT ![p] = pass]
         /\ rowAtGet' = [rowAtGet EXCEPT ![p] = RowRead(g)]
         /\ IF ResolveError(pass, g) # NoError
            THEN Return(p, Failure(ResolveError(pass, g)))
            ELSE Return(p, ShareOutcome(pass, g.data))
    /\ UNCHANGED <<channels, nextUUID, calls, writes, issued, pstnRead>>

\* the response was delivered; the slot is free for the next request
Finish(p) ==
    /\ pc[p] = "done"
    /\ pc' = [pc EXCEPT ![p] = "idle"]
    /\ op' = [op EXCEPT ![p] = "none"]
    /\ passphrase' = [passphrase EXCEPT ![p] = Empty]
    /\ result' = [result EXCEPT ![p] = NoResult]
    /\ calls' = [calls EXCEPT ![p] = <<>>]
    /\ writes' = [writes EXCEPT ![p] = 0]
    /\ issued' = [issued EXCEPT ![p] = 0]
    /\ rowAtGet' = [rowAtGet EXCEPT ![p] = NoRow]
    /\ pstnRead' = [pstnRead EXCEPT ![p] = Unread]
    /\ UNCHANGED <<channels, nextUUID, arrived, channelData, recorder, fileTitle>>

Next ==
    \E p \in Procs :
        \/ CreateChannel(p)
        \/ StartRecordingSession(p)
        \/ RecorderAcquire(p)
        \/ RecorderStart(p)
        \/ PersistRecording(p)
        \/ StopRecordingSession(p)
        \/ JoinChannel(p)
        \/ Share(p)
        \/ Finish(p)

Spec == Init /\ [][Next]_vars

\* ------------------------------------------------- title sanitization
\* The sanitization of lines 178-190 on its own: the titles it is given and
\* the step that applies it.
Example == <<"M", "y", " ", "C", "h", "a", "n", "n", "e", "l", "!", " ", "#", "1">>
Alphabet == <<"a", "Z", "!", "1", "M", "#">>
Mixed(n, k) == [i \in 1..n |-> Alphabet[((i * k) % Len(Alphabet)) + 1]]
TitleInputs == {Example} \cup {Mixed(n, k) : n \in 0..MaxTitleLen, k \in 1..3}

InitTitle ==
    /\ channels = <<>>
    /\ nextUUID = 1
    /\ arrived = 0
    /\ pc = [p \in Procs |-> "idle"]
    /\ op = [p \in Procs |-> "none"]
    /\ passphrase = [p \in Procs |-> Empty]
    /\ \E t \in TitleInputs :
          channelData = [p \in Procs |-> [ZeroChannel EXCEPT !.title = t]]
    /\ recorder = [p \in Procs |-> ZeroRecorder]
    /\ fileTitle = [p \in Procs |-> NoArgs]
    /\ result = [p \in Procs |-> NoResult]
    /\ calls = [p \in Procs |-> <<>>]
    /\ writes = [p \in Procs |-> 0]
    /\ issued = [p \in Procs |-> 0]
    /\ rowAtGet = [p \in Procs |-> NoRow]
    /\ pstnRead = [p \in Procs |-> Unread]

\* finalTitle := utils.FirstN(reg.ReplaceAllString(title, ""), 100)
SanitizeTitle(p) ==
    /\ pc[p] = "idle"
    /\ pc' = [pc EXCEPT ![p] = "acquire"]
    /\ fileTitle' = [fileTitle EXCEPT ![p] =
                        [title |-> FinalTitle(NilUser, channelData[p]), secret |-> NilSecret]]
    /\ UNCHANGED <<channels, nextUUID, arrived, op, passphrase, channelData, recorder,
                   result, calls, writes, issued, rowAtGet, pstnRead>>

NextTitle == \E p \in Procs : SanitizeTitle(p)

SpecTitle == InitTitle /\ [][NextTitle]_vars

\* -------------------------------------------------- passphrase resolution
\* The resolution every passphrase resolver starts with (lines 154-171,
\* 228-244, 335-352, 382-399), as a function of what DB.Get hands back: the
\* table holds channels made by CreateChannel, and the lookup answers with
\* no row or with any row of the table, matching or not.
RECURSIVE Created(_)
Created(k) ==
    IF k = 0 THEN <<>>
    ELSE CreateChannelRun(Created(k - 1), 1 + 4 * (k - 1), <<"a", "!", "Z">>, "false", FALSE,
                          "none", "1234", FALSE).store

AnyRow(store, cols) ==
    {NoRows} \cup {[found |-> TRUE, row |-> i, data |-> Scan(store[i], cols)] : i \in DOMAIN store}

ResolverOps == {"JoinChannel", "Share", "StartRecordingSession", "StopRecordingSession"}

InitLookup ==
    /\ \E k \in 1..MaxChannels : channels = Created(k) /\ nextUUID = 1 + 4 * k
    /\ arrived = 0
    /\ pc = [p \in Procs |-> "idle"]
    /\ op = [p \in Procs |-> "none"]
    /\ passphrase = [p \in Procs |-> Empty]
    /\ channelData = [p \in Procs |-> ZeroChannel]
    /\ recorder = [p \in Procs |-> ZeroRecorder]
    /\ fileTitle = [p \in Procs |-> NoArgs]
    /\ result = [p \in Procs |-> NoResult]
    /\ calls = [p \in Procs |-> <<>>]
    /\ writes = [p \in Procs |-> 0]
    /\ issued = [p \in Procs |-> 0]
    /\ rowAtGet = [p \in Procs |-> NoRow]
    /\ pstnRead = [p \in Procs |-> Unread]

\* the request up to the value of `host`
Resolve(p) ==
    \E name \in ResolverOps :
        /\ Arrive(p, name)
        /\ \E pass \in Passphrases(channels) :
           \E g \in AnyRow(channels, IF name \in {"JoinChannel", "Share"} THEN JoinSelect
                                     ELSE RecordingSelect) :
             /\ passphrase' = [passphrase EXCEPT ![p] = pass]
             /\ rowAtGet' = [rowAtGet EXCEPT ![p] = RowRead(g)]
             /\ IF ResolveError(pass, g) # NoError
                THEN Return(p, Failure(ResolveError(pass, g)))
                ELSE Return(p, Outcome([kind |-> "role", role |-> Role(pass, g.data)],
                                       NoError))
        /\ UNCHANGED <<channels, nextUUID, calls, writes, issued, pstnRead>>

NextLookup == \E p \in Procs : Resolve(p) \/ Finish(p)

SpecLookup == InitLookup /\ [][NextLookup]_vars

TypeOK == \A p \in Procs : pc[p] \in {"idle", "acquire", "start", "update", "done"}

\* ---------------------------------------------------------- vocabulary
Done(p, name) == pc[p] = "done" /\ op[p] = name

\* pass is the host passphrase of row i / the viewer passphrase only
IsHostOf(pass, i) == channels[i].host_passphrase = pass
IsViewerOf(pass, i) ==
    channels[i].viewer_passphrase = pass /\ channels[i].host_passphrase # pass
Known(pass) == \E i \in DOMAIN channels : IsHostOf(pass, i) \/ IsViewerOf(pass, i)

AllValid(row) ==
    row.recording_rid.Valid /\ row.recording_sid.Valid /\ row.recording_uid.Valid
NoneValid(row) ==
    ~row.recording_rid.Valid /\ ~row.recording_sid.Valid /\ ~row.recording_uid.Valid

\* the external requests of slot p to one endpoint
CallsTo(p, endpoint) == {k \in DOMAIN calls[p] : calls[p][k].endpoint = endpoint}

\* the 32-bit signed number i is the numeric id u
SameNumber(i, u) == u.hi < HalfWord \div 2 /\ i = u.hi * HalfWord + u.lo


\* the three identifiers a StartRecordingSession obtained, as its requests
\* to the recording service show them, and the three a row holds
Triple(p) ==
    [uid |-> NullInt32(ToInt32(calls[p][2].token.uid)),
     rid |-> NullString(calls[p][1].resp.resourceId),
     sid |-> NullString(calls[p][2].resp.sid)]
RowTriple(row) ==
    [uid |-> row.recording_uid, rid |-> row.recording_rid, sid |-> row.recording_sid]
Succeeded(p) ==
    Done(p, "StartRecordingSession") /\ result[p] = Status("success")

\* the number a decimal reader takes a uid string for: one digit character
\* is that digit, any other single character is no number
NotANumber == [hi |-> 0 - 1, lo |-> 0 - 1]
DecimalValue(s) == IF s.rune \in 48..57 THEN UInt(0, s.rune - 48) ELSE NotANumber

\* the error values the resolvers themselves make
CoarseErrors == {errInternalServer, errBadRequest, errEmptyPassphrase, errInvalidURL,
                 errUnauthorised, errNotStarted, errInvalidToken}
IsAlnum(c) == c \in Alnum
Min(a, b) == IF a <= b THEN a ELSE b

\* ================================================================ claims

\* C1: a StartRecordingSession or StopRecordingSession request whose
\* passphrase is the viewer passphrase of a channel (and not its host
\* passphrase) is never past the role check: it has returned
\* "Unauthorised to record channel", it has sent nothing to the acquire,
\* start or stop endpoint and it has written no channel record.
C1_ViewerRejected ==
    \A p \in Procs :
        ( /\ op[p] \in {"StartRecordingSession", "StopRecordingSession"}
          /\ \E i \in DOMAIN channels : IsViewerOf(passphrase[p], i) )
        => /\ pc[p] = "done"
           /\ result[p] = Failure(errUnauthorised)
           /\ calls[p] = <<>>
           /\ writes[p] = 0

\* C1 witness: a viewer's Start and a viewer's Stop have both been rejected
C1_Witness ==
    \E p, q \in Procs :
        /\ Done(p, "StartRecordingSession") /\ Done(q, "StopRecordingSession")
        /\ \E i \in DOMAIN channels :
              IsViewerOf(passphrase[p], i) /\ IsViewerOf(passphrase[q], i)
        /\ result[p].err = errUnauthorised /\ result[q].err = errUnauthorised

\* C2 (as claimed): a host's StopRecordingSession that finds the triple of
\* an earlier successful Start on the channel record has called the stop
\* endpoint exactly once, with the resource id and session id of that
\* record, and has returned success.
C2_StopAfterStart ==
    \A p \in Procs :
        ( /\ Done(p, "StopRecordingSession")
          /\ rowAtGet[p].found
          /\ passphrase[p] = rowAtGet[p].row.host_passphrase
          /\ AllValid(rowAtGet[p].row) )
        => /\ result[p] = Status("success")
           /\ Len(calls[p]) = 1
           /\ calls[p][1].endpoint = "stop"
           /\ calls[p][1].rid = rowAtGet[p].row.recording_rid.String
           /\ calls[p][1].sid = rowAtGet[p].row.recording_sid.String

\* C3 (as claimed): when a StartRecordingSession returns success, the
\* channel record then holds the resource id answered by the request's
\* acquire call, the session id answered by its start call and the numeric
\* id of its credential, none of them empty or zero.
C3_SuccessPersistsTriple ==
    [][ \A p \in Procs :
          ( /\ op[p] = "StartRecordingSession"
            /\ pc[p] = "update" /\ pc'[p] = "done"
            /\ result'[p].err = NoError )
          => LET row == channels'[channelData[p].id]
             IN /\ Len(calls[p]) = 2
                /\ row.recording_rid = NullString(calls[p][1].resp.resourceId)
                /\ row.recording_sid = NullString(calls[p][2].resp.sid)
                /\ row.recording_uid.Valid
                /\ SameNumber(row.recording_uid.Int32, calls[p][2].token.uid)
                /\ row.recording_rid.String # ""
                /\ row.recording_sid.String # ""
                /\ row.recording_uid.Int32 # 0 ]_vars

\* C4 (as claimed): once the acquire call of a StartRecordingSession has
\* failed (no answer, a non-success status, or an answer without resource
\* id), the request has returned an error, has not called the start
\* endpoint and has written nothing.
C4_AcquireFailureAborts ==
    \A p \in Procs :
        ( /\ op[p] = "StartRecordingSession"
          /\ Len(calls[p]) >= 1
          /\ LET r == calls[p][1].resp
             IN r.neterr \/ r.status # 200 \/ r.resourceId = "" )
        => /\ pc[p] = "done"
           /\ result[p].err # NoError
           /\ CallsTo(p, "start") = {}
           /\ writes[p] = 0

\* C5: a host's StopRecordingSession that read a channel record lacking the
\* resource id, the session id or the numeric id has returned "Recording
\* not started" and has not called the stop endpoint.
C5_StopRejectedWhenIncomplete ==
    \A p \in Procs :
        ( /\ Done(p, "StopRecordingSession")
          /\ rowAtGet[p].found
          /\ passphrase[p] = rowAtGet[p].row.host_passphrase
          /\ ~AllValid(rowAtGet[p].row) )
        => /\ result[p] = Failure(errNotStarted)
           /\ CallsTo(p, "stop") = {}

\* C5 witness: a host's Stop on a channel that was never recorded
C5_Witness ==
    \E p \in Procs :
        /\ Done(p, "StopRecordingSession")
        /\ rowAtGet[p].found
        /\ passphrase[p] = rowAtGet[p].row.host_passphrase
        /\ NoneValid(rowAtGet[p].row)
        /\ result[p].err = errNotStarted

\* C6: the recording columns of every channel record are all NULL or all
\* set, whatever requests have run and however they interleaved.
C6_TripleAllOrNothing ==
    \A i \in DOMAIN channels : AllValid(channels[i]) \/ NoneValid(channels[i])

\* C6 witness: a record has its triple set while another
\* StartRecordingSession is under way
C6_Witness ==
    /\ \E i \in DOMAIN channels : AllValid(channels[i])
    /\ \E p \in Procs : pc[p] \in {"acquire", "start", "update"}

C8_JoinAlwaysSession ==
    \A p \in Procs : Done(p, "JoinChannel") =>
        /\ \A i \in DOMAIN channels :
              (IsHostOf(passphrase[p], i) \/ IsViewerOf(passphrase[p], i))
              => /\ result[p].err = NoError
                 /\ result[p].val.kind = "session"
                 /\ result[p].val.Channel = channels[i].channel_name
                 /\ result[p].val.IsHost = IsHostOf(passphrase[p], i)
        /\ (passphrase[p] # Empty /\ ~Known(passphrase[p]))
              => result[p] = Failure(errInvalidURL) /\ issued[p] = 0

\* C8 (amended): JoinChannel with a host or viewer passphrase has returned
\* either "Internal Server Error" (a credential could not be generated) or
\* a session of that channel whose IsHost tells whether the passphrase is
\* the host passphrase; with an unknown non-empty string it has returned
\* "Invalid URL" without issuing a credential.
C8_JoinRole ==
    \A p \in Procs : Done(p, "JoinChannel") =>
        /\ \A i \in DOMAIN channels :
              (IsHostOf(passphrase[p], i) \/ IsViewerOf(passphrase[p], i))
              => \/ result[p] = Failure(errInternalServer) /\ issued[p] < 2
                 \/ /\ result[p].err = NoError
                    /\ result[p].val.kind = "session"
                    /\ result[p].val.Channel = channels[i].channel_name
                    /\ result[p].val.IsHost = IsHostOf(passphrase[p], i)
                    /\ issued[p] = 2
        /\ (passphrase[p] # Empty /\ ~Known(passphrase[p]))
              => result[p] = Failure(errInvalidURL) /\ issued[p] = 0

\* C8 witness: a host and a viewer of one channel have both joined, and an
\* unknown passphrase was turned away
C8_Witness ==
    \E p, q \in Procs : \E i \in DOMAIN channels :
        /\ Done(p, "JoinChannel") /\ Done(q, "JoinChannel")
        /\ IsHostOf(passphrase[p], i) /\ IsViewerOf(passphrase[q], i)
        /\ result[p].err = NoError /\ result[p].val.IsHost
        /\ result[q].err = NoError /\ ~result[q].val.IsHost

\* C9: the host passphrase of every channel differs from its viewer
\* passphrase, and no passphrase of one channel is a passphrase of another.
C9_PassphrasesDistinct ==
    /\ \A i \in DOMAIN channels :
          channels[i].host_passphrase # channels[i].viewer_passphrase
    /\ \A i, j \in DOMAIN channels :
          i # j => {channels[i].host_passphrase, channels[i].viewer_passphrase}
                   \cap {channels[j].host_passphrase, channels[j].viewer_passphrase} = {}

\* C9 witness: two channels were created
C9_Witness == Len(channels) >= 2

\* C10 (as claimed): Share with a host passphrase has returned the host and
\* the viewer passphrase of the channel, Share with a viewer passphrase the
\* viewer passphrase and no host passphrase; it wrote nothing and issued no
\* credential.
C10_ShareHidesHost ==
    \A p \in Procs : Done(p, "Share") =>
        /\ writes[p] = 0 /\ issued[p] = 0
        /\ \A i \in DOMAIN channels :
              /\ IsHostOf(passphrase[p], i)
                 => /\ result[p].err = NoError
                    /\ result[p].val.Host = Ptr(channels[i].host_passphrase)
                    /\ result[p].val.View = channels[i].viewer_passphrase
              /\ IsViewerOf(passphrase[p], i)
                 => /\ result[p].err = NoError
                    /\ result[p].val.Host = NilString
                    /\ result[p].val.View = channels[i].viewer_passphrase

\* C11: a CreateChannel that returned a response after reading enablePSTN
\* as true carries a PSTN part with the generated, non-empty DTMF code and
\* the configured PSTN number; one that read false carries no PSTN part.
C11_PstnFollowsFlag ==
    \A p \in Procs :
        (Done(p, "CreateChannel") /\ result[p].err = NoError)
        => /\ pstnRead[p] \in {"true", "false"}
           /\ pstnRead[p] = "true"
                => /\ ~result[p].val.Pstn.nil
                   /\ result[p].val.Pstn.Dtmf \in DTMFCodes
                   /\ result[p].val.Pstn.Dtmf # ""
                   /\ result[p].val.Pstn.Number = "PSTN_NUMBER"
           /\ pstnRead[p] = "false" => result[p].val.Pstn = NoPstn

\* C11 witness: one response with and one without the PSTN part
C11_Witness ==
    \E p, q \in Procs :
        /\ Done(p, "CreateChannel") /\ result[p].err = NoError /\ pstnRead[p] = "true"
        /\ Done(q, "CreateChannel") /\ result[q].err = NoError /\ pstnRead[q] = "false"

\* C12 (as claimed): a Share with a passphrase of a channel returns the
\* PSTN part the CreateChannel of that channel returned: the same number
\* and DTMF code when the channel was created with PSTN, none otherwise.
C12_ShareRepeatsPstn ==
    \A p, q \in Procs :
        ( /\ Done(p, "CreateChannel") /\ result[p].err = NoError
          /\ Done(q, "Share")
          /\ passphrase[q] \in {result[p].val.Host.s, result[p].val.View} )
        => /\ result[q].err = NoError
           /\ result[q].val.Pstn = result[p].val.Pstn

\* C13: the file-name prefix handed to the start phase is the title with
\* every character outside [A-Za-z0-9] taken out, in order, cut to its
\* first 100 characters: only alphanumerics, of length min(100, number of
\* alphanumerics of the title); "My Channel! #1" gives "MyChannel1".
C13_TitleSanitized ==
    \A p \in Procs :
        pc[p] = "acquire"
        => LET in == channelData[p].title
               out == fileTitle[p].title
               kept == SelectSeq(in, IsAlnum)
           IN /\ out = SubSeq(kept, 1, Min(100, Len(kept)))
              /\ \A i \in DOMAIN out : out[i] \in Alnum
              /\ Len(out) = Min(100, Cardinality({i \in DOMAIN in : in[i] \in Alnum}))
              /\ in = Example
                   => out = <<"M", "y", "C", "h", "a", "n", "n", "e", "l", "1">>

\* C13 witness: a 150-character title of letters, digits and symbols was
\* cut to exactly 100 characters
C13_Witness ==
    \E p \in Procs :
        /\ pc[p] = "acquire"
        /\ Len(channelData[p].title) = 150
        /\ \E i \in DOMAIN channelData[p].title : channelData[p].title[i] \notin Alnum
        /\ Len(fileTitle[p].title) = 100

\* C14 (as claimed): every error a request has returned to its caller is
\* one of the error values of the service, never the error value a
\* collaborator produced.
C14_ErrorsCoarse ==
    \A p \in Procs :
        (pc[p] = "done" /\ result[p].err \notin {NoError, Panic})
        => result[p].err \in CoarseErrors

\* C15 (as claimed): a request whose lookup handed back a row with neither
\* passphrase equal to the one supplied has failed, and with an error other
\* than the one of a request whose lookup found no row.
C15_InconsistencyDistinct ==
    \A p, q \in Procs :
        ( /\ pc[p] = "done" /\ pc[q] = "done"
          /\ passphrase[p] # Empty /\ passphrase[q] # Empty
          /\ rowAtGet[p].found
          /\ passphrase[p] # rowAtGet[p].row.host_passphrase
          /\ passphrase[p] # rowAtGet[p].row.viewer_passphrase
          /\ ~rowAtGet[q].found )
        => /\ result[p].err # NoError
           /\ result[p].err # result[q].err

\* C16: nothing is sent twice: a StartRecordingSession has sent at most one
\* request to the acquire endpoint and at most one to the start endpoint,
\* a StopRecordingSession at most one to the stop endpoint, whatever the
\* answers were.
C16_NoRetry ==
    \A p \in Procs :
        /\ op[p] = "StartRecordingSession"
             => /\ Cardinality(CallsTo(p, "acquire")) <= 1
                /\ Cardinality(CallsTo(p, "start")) <= 1
                /\ CallsTo(p, "stop") = {}
        /\ op[p] = "StopRecordingSession"
             => /\ Cardinality(CallsTo(p, "stop")) <= 1
                /\ Len(calls[p]) <= 1

\* C16 witness: one Start gave up after its single unanswered acquire
\* request, another after its single unanswered start request
C16_Witness ==
    \E p, q \in Procs :
        /\ Done(p, "StartRecordingSession") /\ Done(q, "StartRecordingSession")
        /\ Len(calls[p]) = 1 /\ calls[p][1].endpoint = "acquire" /\ calls[p][1].resp.neterr
        /\ Len(calls[q]) = 2 /\ calls[q][2].endpoint = "start" /\ calls[q][2].resp.neterr
        /\ result[p].err = errInternalServer /\ result[q].err = errInternalServer

\* C17: when two StartRecordingSession requests of the host of one channel
\* have overlapped and both returned success, the row of the channel holds
\* the three identifiers of one of them, all three from the same request;
\* and each successful write leaves on the row exactly the three
\* identifiers of the request that wrote, so the last writer's stay.
C17_LastWriterWins ==
    /\ [](\A p, q \in Procs :
            ( /\ p # q /\ Succeeded(p) /\ Succeeded(q)
              /\ rowAtGet[p].row.id = rowAtGet[q].row.id )
            => RowTriple(channels[rowAtGet[p].row.id]) \in {Triple(p), Triple(q)})
    /\ [][ \A p \in Procs :
             (pc[p] = "update" /\ Succeeded(p)')
             => RowTriple(channels'[rowAtGet[p].row.id]) = Triple(p) ]_vars

\* C17 witness: two overlapping Starts of one channel have both succeeded
\* with different identifiers, and the row holds those of the first slot
C17_Witness ==
    \E p, q \in Procs :
        /\ p # q /\ Succeeded(p) /\ Succeeded(q)
        /\ rowAtGet[p].row.id = rowAtGet[q].row.id
        /\ Triple(p).uid # Triple(q).uid
        /\ Triple(p).rid # Triple(q).rid
        /\ RowTriple(channels[rowAtGet[p].row.id]) = Triple(p)

\* C18 (as claimed): in a StartRecordingSession the start endpoint is called
\* only after the request's own acquire call has returned, with the
\* resource id that call answered and the token of the credential made for
\* it, and the row is written only after the start call has returned
\* successfully.
C18_PhasesOrdered ==
    \A p \in Procs :
        op[p] = "StartRecordingSession"
        => /\ Len(calls[p]) >= 1 => calls[p][1].endpoint = "acquire"
           /\ Len(calls[p]) >= 2
                => /\ calls[p][2].endpoint = "start"
                   /\ ~calls[p][1].resp.neterr
                   /\ calls[p][2].rid = calls[p][1].resp.resourceId
                   /\ calls[p][2].token.cname = calls[p][2].cname
                   /\ RuneString(ToInt32(calls[p][2].token.uid)) = calls[p][1].uid
           /\ (pc[p] = "update" \/ writes[p] > 0)
                => /\ Len(calls[p]) = 2
                   /\ ~calls[p][2].resp.neterr
                   /\ calls[p][2].resp.status = 200
                   /\ calls[p][2].resp.sid # ""

\* C19: a StopRecordingSession has written nothing, whatever it returned,
\* and the three identifiers it found on the row it read are still on that
\* row when it has returned.
C19_StopLeavesStore ==
    \A p \in Procs :
        Done(p, "StopRecordingSession")
        => /\ writes[p] = 0
           /\ (rowAtGet[p].found /\ AllValid(rowAtGet[p].row))
                => AllValid(channels[rowAtGet[p].row.id])

\* C19 witness: the host's Stop of a channel whose row holds the three
\* identifiers of a Start has returned
C19_Witness ==
    \E p \in Procs :
        /\ Done(p, "StopRecordingSession")
        /\ rowAtGet[p].found
        /\ passphrase[p] = rowAtGet[p].row.host_passphrase
        /\ AllValid(rowAtGet[p].row)
        /\ RowTriple(channels[rowAtGet[p].row.id]) = RowTriple(rowAtGet[p].row)

\* C20 (as claimed): the uid sent to the acquire and start endpoints reads
\* as the numeric id of the credential the request generated, and the
\* numeric id a successful request left on the row is that number.
C20_UidLossless ==
    \A p \in Procs :
        (op[p] = "StartRecordingSession" /\ Len(calls[p]) >= 2)
        => /\ DecimalValue(calls[p][1].uid) = calls[p][2].token.uid
           /\ DecimalValue(calls[p][2].uid) = calls[p][2].token.uid
           /\ ( /\ Succeeded(p)
                /\ RowTriple(channels[rowAtGet[p].row.id]) = Triple(p) )
                => SameNumber(channels[rowAtGet[p].row.id].recording_uid.Int32,
                              calls[p][2].token.uid)


\* C21 (as claimed): every CreateChannel, whatever its title and whether
\* enablePSTN was true, false or not supplied, has ended by returning a
\* ShareResponse or an error, never by aborting without a result; and one
\* that returned an error has inserted no channel.
C21_CreateChannelTotal ==
    \A p \in Procs :
        Done(p, "CreateChannel")
        => /\ result[p].err # Panic
           /\ \/ result[p].err = NoError /\ result[p].val.kind = "share"
              \/ result[p].err # NoError /\ result[p].val = NilValue
           /\ result[p].err # NoError => writes[p] = 0

====
